---- MODULE Spec2Model ----
(***************************************************************************)
(* A model of the Options class of include/Options.h: registration of     *)
(* flags (Add, AddSwitch, add_entry), parsing through getopt_long (Parse), *)
(* and the usage text (the layout in add_entry, Usage).                    *)
(*                                                                         *)
(* Strings are sequences of character codes.  A C string read at its end   *)
(* yields the terminating NUL, written 0.  Values of type unsigned are     *)
(* kept as their 32-bit two's complement representative, so a difference   *)
(* that wraps around below zero is a negative number here.                 *)
(***************************************************************************)
EXTENDS Integers, Sequences, FiniteSets, TLC

VARIABLES
    optstr,             \* Options::optstr, the short-option string handed to getopt_long
    options,            \* Options::options, the vector of struct option
    setters,            \* Options::setters, code -> bound setter
    long_flags,         \* Options::long_flags
    usage,              \* Options::usage, group -> description blocks (a std::map)
    optval,             \* Options::optval, the next synthetic code
    IndentFlag,         \* Options::IndentFlag
    IndentDescription,  \* Options::IndentDescription
    Header,             \* Options::Header
    mem,                \* the caller's variables the setters refer to
    ws_col,             \* the terminal's column count as TIOCGWINSZ reports it
    phase,              \* "register", "parsed" (Parse has run) or "hung" (a call never returned)
    call,               \* the last call: its arguments, its locals and its outcome
    ncalls,             \* number of registration calls made
    log,                \* the registration calls made so far, in order
    out                 \* what the last Usage() returned

vars == <<optstr, options, setters, long_flags, usage, optval, IndentFlag,
          IndentDescription, Header, mem, ws_col, phase, call, ncalls, log, out>>

----------------------------------------------------------------------------
(* Bounds of the model *)

MaxCalls == 2
MaxArgc == 2
MaxRegs == 3
MaxUsageCalls == 3
MaxDesc == 3

----------------------------------------------------------------------------
(* Characters and getopt.h constants *)

NUL == 0
NL == 10
Space == 32
Dash == 45
Colon == 58
Semicolon == 59
EqualsSign == 61
QuestionMark == 63
Underscore == 95
required_argument == 1
optional_argument == 2
GetoptEnd == -1
SyntheticBase == 256
DefaultIndentFlag == 2
DefaultIndentDescription == 18
MinColumns == 40
FallbackColumns == 80

Min(a, b) == IF a < b THEN a ELSE b

\* s[i] of a C string, 1-based; the terminating NUL at and past the end
At(s, i) == IF i >= 1 /\ i <= Len(s) THEN s[i] ELSE NUL

\* strchr: the 1-based index of the first c in s, 0 when there is none
IndexOf(s, c) ==
    IF \E i \in 1..Len(s) : s[i] = c
    THEN CHOOSE i \in 1..Len(s) : s[i] = c /\ \A j \in 1..(i - 1) : s[j] # c
    ELSE 0

\* std::string(n, ' ')
Spaces(n) == [i \in 1..n |-> Space]

\* strncmp(full, pre, Len(pre)) = 0
IsPrefix(pre, full) == Len(pre) <= Len(full) /\ SubSeq(full, 1, Len(pre)) = pre

----------------------------------------------------------------------------
(* struct option as Add and AddSwitch leave it *)

NullName == [k |-> "null", s |-> <<>>]
WildName == [k |-> "wild", s |-> <<>>]
StrName(s) == [k |-> "str", s |-> s]

\* `struct option op;` is not initialised.  add_entry writes op.val and
\* op.flag only past its early return and op.name only for a long flag, so
\* the other fields keep what the stack held: a null pointer (which ends the
\* table getopt_long scans), a pointer to bytes that match no option, and for
\* val any number, among them the code of an entry registered before.
JunkOps(flag, long_flag) ==
    { [name |-> n, val |-> v] :
        n \in (IF long_flag = <<>> THEN {NullName, WildName} ELSE {NullName}),
        v \in (IF flag = NUL /\ long_flag = <<>>
               THEN {NUL} \cup DOMAIN setters ELSE {NUL}) }

\* the terminator Parse appends: {NULL, 0, NULL, 0}
Terminator == [name |-> NullName, has_arg |-> 0, val |-> 0]

----------------------------------------------------------------------------
(* The usage text of one entry: add_entry, lines 134-160 *)

DefaultOpen == <<32, 60, 100, 101, 102, 97, 117, 108, 116, 58, 32>>  \* " <default: "
DefaultClose == <<62>>                                                \* ">"
SwitchMarker == <<32, 60, 115, 119, 105, 116, 99, 104, 62>>          \* " <switch>"

\* operator<< of a stringstream for an int or an unsigned: decimal digits
RECURSIVE Digits(_)
Digits(n) == IF n < 10 THEN <<48 + n>> ELSE Append(Digits(n \div 10), 48 + (n % 10))

ToDecimal(n) == IF n < 0 THEN <<Dash>> \o Digits(0 - n) ELSE Digits(n)

\* every numeric default hidden when it is zero, as the unsigned one is
get_default_ZeroHidden(T, default_val) ==
    IF T = "string"
    THEN IF Len(default_val) # 0 THEN DefaultOpen \o default_val \o DefaultClose ELSE <<>>
    ELSE IF T = "bool" THEN SwitchMarker
    ELSE IF default_val # 0 THEN DefaultOpen \o ToDecimal(default_val) \o DefaultClose
    ELSE <<>>

\* get_default<T>: the primary template and its std::string specialisation
get_default(T, default_val) ==
    IF T = "string"
    THEN IF Len(default_val) # 0 THEN DefaultOpen \o default_val \o DefaultClose ELSE <<>>
    ELSE IF T = "bool" THEN SwitchMarker
    ELSE IF T = "unsigned"
    THEN IF default_val # 0 THEN DefaultOpen \o ToDecimal(default_val) \o DefaultClose
         ELSE <<>>
    ELSE DefaultOpen \o ToDecimal(default_val) \o DefaultClose

\* tty_width: the reported column count when it is at least 40, else 80
tty_width(cols) == IF cols >= MinColumns THEN cols ELSE FallbackColumns

\* the label written before the description, with its padding (lines 136-140)
FlagLabel(indent, flag, long_flag) ==
    Spaces(indent)
    \o (IF flag # NUL THEN <<Dash, flag, Space>> ELSE <<>>)
    \o (IF long_flag # <<>> THEN <<Dash, Dash>> \o long_flag \o <<Space>> ELSE <<>>)

Prefix(indent, indentDesc, flag, long_flag) ==
    LET label == FlagLabel(indent, flag, long_flag)
    IN  label \o Spaces(IF Len(label) > indentDesc THEN 1 ELSE indentDesc - Len(label))

\* line 146.  width - length is computed in size_t, so it wraps around to a
\* huge value when the prefix is longer than the terminal is wide; the
\* comparison with width * 0.3f then succeeds.  For 0 <= n <= width <= 65535
\* the float comparison n > width * 0.3f decides exactly as 10 n > 3 width.
RoomLeft(width, p) == IF p > width THEN TRUE ELSE 10 * (width - p) > 3 * width

desc_pos(width, p, indent) == IF RoomLeft(width, p) THEN p ELSE indent + 2

\* line 147: unsigned column_width = width - desc_pos (negative: wrapped around)
column_width(width, dpos) == width - dpos

\* the while loop of line 151; i is 0-based as in the code
RECURSIVE SkipSpaces(_, _)
SkipSpaces(desc, i) == IF At(desc, i + 1) = Space THEN SkipSpaces(desc, i + 1) ELSE i

\* desc.substr(pos, n) for an unsigned n converted to size_t: a wrapped n is
\* larger than any string, and substr stops at the end of the string
substr(desc, pos, n) ==
    SubSeq(desc, pos + 1, IF n < 0 THEN Len(desc) ELSE Min(Len(desc), pos + n))

\* The for loop of lines 150-157, entered at its test with loop variable i.
\* `i < desc.size()` compares in size_t: a negative i is huge and ends the
\* loop.  `i + column_width` is an unsigned sum: negative here means huge.
\* The body is a function of i alone, so a loop head seen twice never ends.
RECURSIVE WrapLoop(_, _, _, _, _, _, _)
WrapLoop(desc, cw, dpos, i, seen, lines, text) ==
    IF ~(i >= 0 /\ i < Len(desc)) THEN [hang |-> FALSE, lines |-> lines, text |-> text]
    ELSE IF i \in seen THEN [hang |-> TRUE, lines |-> lines, text |-> text]
    ELSE LET j == SkipSpaces(desc, i)
             sum == j + cw
         IN  IF sum >= 0 /\ sum < Len(desc)
             THEN WrapLoop(desc, cw, dpos, j + cw, seen \cup {i},
                           Append(lines, substr(desc, j, cw)),
                           text \o substr(desc, j, cw) \o <<NL>> \o Spaces(dpos))
             ELSE WrapLoop(desc, cw, dpos, j + cw, seen \cup {i},
                           Append(lines, SubSeq(desc, j + 1, Len(desc))),
                           text \o SubSeq(desc, j + 1, Len(desc)))

\* lines 135-157: the block of one entry and the locals that lead to it
Layout(T, flag, long_flag, default_val, description, indent, indentDesc, cols) ==
    LET pre == Prefix(indent, indentDesc, flag, long_flag)
        desc == description \o get_default(T, default_val)
        width == tty_width(cols)
        dpos == desc_pos(width, Len(pre), indent)
        cw == column_width(width, dpos)
        head == IF dpos = indent + 2 THEN Append(pre, NL) ELSE pre
        w == WrapLoop(desc, cw, dpos, 0, {}, <<>>, head)
    IN  [p |-> Len(pre), prefix |-> pre, desc |-> desc, width |-> width,
         desc_pos |-> dpos, column_width |-> cw, newline |-> (dpos = indent + 2),
         lines |-> w.lines, hang |-> w.hang, block |-> w.text]

NoLayout ==
    [p |-> 0, prefix |-> <<>>, desc |-> <<>>, width |-> 0, desc_pos |-> 0,
     column_width |-> 0, newline |-> FALSE, lines |-> <<>>, hang |-> FALSE,
     block |-> <<>>]

----------------------------------------------------------------------------
(* getopt_long as Parse calls it (line 84): glibc's scan of argv.  args are  *)
(* argv[1..argc-1]; ind is optind; nc is the 1-based position of the next   *)
(* character inside args[ind] while a cluster of short options is being     *)
(* read, 0 otherwise.  Elements that are no options are skipped (glibc      *)
(* permutes them to the end), "--" ends the scan.                           *)

NoArg == [null |-> TRUE, s |-> <<>>]
Arg(s) == [null |-> FALSE, s |-> s]

IsOptionElement(a) == At(a, 1) = Dash /\ At(a, 2) # NUL

RECURSIVE NextOption(_, _)
NextOption(args, ind) ==
    IF ind <= Len(args) /\ ~IsOptionElement(args[ind]) THEN NextOption(args, ind + 1)
    ELSE ind

\* the code getopt_long returns for a missing argument
MissingArgument(os) == IF At(os, 1) = Colon THEN Colon ELSE QuestionMark

\* the entries getopt_long scans: those before the first null name
LongTable(opts) ==
    LET stop == IF \E i \in 1..Len(opts) : opts[i].name.k = "null"
                THEN CHOOSE i \in 1..Len(opts) :
                        opts[i].name.k = "null" /\ \A j \in 1..(i - 1) : opts[j].name.k # "null"
                ELSE Len(opts) + 1
    IN  SubSeq(opts, 1, stop - 1)

\* process_long_option's search: an exact match first, else the first entry the
\* name abbreviates, unless a later such entry differs in has_arg or val
\* (ambiguous).  0: not found or ambiguous.
FindLong(table, name) ==
    LET named == {i \in 1..Len(table) : table[i].name.k = "str"}
        exact == {i \in named : table[i].name.s = name}
        abbr == {i \in named : IsPrefix(name, table[i].name.s)}
        first(S) == CHOOSE i \in S : \A j \in S : i <= j
    IN  IF exact # {} THEN first(exact)
        ELSE IF abbr = {} THEN 0
        ELSE IF \E i \in abbr : table[i].has_arg # table[first(abbr)].has_arg
                                \/ table[i].val # table[first(abbr)].val
        THEN 0
        ELSE first(abbr)

process_long_option(args, os, opts, ind) ==
    LET body == SubSeq(args[ind], 3, Len(args[ind]))
        eq == IndexOf(body, EqualsSign)
        name == IF eq = 0 THEN body ELSE SubSeq(body, 1, eq - 1)
        table == LongTable(opts)
        f == FindLong(table, name)
    IN  IF f = 0 THEN [ch |-> QuestionMark, optarg |-> NoArg, ind |-> ind + 1, nc |-> 0]
        ELSE IF eq # 0
        THEN IF table[f].has_arg # 0
             THEN [ch |-> table[f].val, optarg |-> Arg(SubSeq(body, eq + 1, Len(body))),
                   ind |-> ind + 1, nc |-> 0]
             ELSE [ch |-> QuestionMark, optarg |-> NoArg, ind |-> ind + 1, nc |-> 0]
        ELSE IF table[f].has_arg = required_argument
        THEN IF ind + 1 <= Len(args)
             THEN [ch |-> table[f].val, optarg |-> Arg(args[ind + 1]), ind |-> ind + 2, nc |-> 0]
             ELSE [ch |-> MissingArgument(os), optarg |-> NoArg, ind |-> ind + 1, nc |-> 0]
        ELSE [ch |-> table[f].val, optarg |-> NoArg, ind |-> ind + 1, nc |-> 0]

\* a short option: the character at position pos of args[ind]
short_option(args, os, ind, pos) ==
    LET a == args[ind]
        c == a[pos]
        atEnd == pos = Len(a)
        rest == SubSeq(a, pos + 1, Len(a))
        ind1 == IF atEnd THEN ind + 1 ELSE ind
        k == IndexOf(os, c)
    IN  IF k = 0 \/ c = Colon \/ c = Semicolon
        THEN [ch |-> QuestionMark, optarg |-> NoArg, ind |-> ind1,
              nc |-> IF atEnd THEN 0 ELSE pos + 1]
        ELSE IF At(os, k + 1) # Colon
        THEN [ch |-> c, optarg |-> NoArg, ind |-> ind1, nc |-> IF atEnd THEN 0 ELSE pos + 1]
        ELSE IF At(os, k + 2) = Colon
        THEN \* an optional argument: only what is attached counts
             [ch |-> c, optarg |-> IF atEnd THEN NoArg ELSE Arg(rest), ind |-> ind + 1, nc |-> 0]
        ELSE IF ~atEnd
        THEN [ch |-> c, optarg |-> Arg(rest), ind |-> ind + 1, nc |-> 0]
        ELSE IF ind1 > Len(args)
        THEN [ch |-> MissingArgument(os), optarg |-> NoArg, ind |-> ind1, nc |-> 0]
        ELSE [ch |-> c, optarg |-> Arg(args[ind1]), ind |-> ind1 + 1, nc |-> 0]

getopt_long(args, os, opts, ind, nc) ==
    IF nc # 0 THEN short_option(args, os, ind, nc)
    ELSE LET n == NextOption(args, ind)
         IN  IF n > Len(args) \/ args[n] = <<Dash, Dash>>
             THEN [ch |-> GetoptEnd, optarg |-> NoArg, ind |-> n, nc |-> 0]
             ELSE IF args[n][2] = Dash THEN process_long_option(args, os, opts, n)
             ELSE short_option(args, os, n, 2)

----------------------------------------------------------------------------
(* Setters *)

\* `ss >> var` for an int or an unsigned: leading blanks, a sign, digits.
\* Without a digit the extraction fails and stores 0.
RECURSIVE DigitsValue(_, _, _)
DigitsValue(s, i, acc) ==
    IF At(s, i) >= 48 /\ At(s, i) <= 57 THEN DigitsValue(s, i + 1, 10 * acc + (At(s, i) - 48))
    ELSE acc

Extract(s) ==
    LET j == SkipSpaces(s, 0) + 1
        neg == At(s, j) = Dash
        d == IF neg \/ At(s, j) = 43 THEN j + 1 ELSE j
        v == DigitsValue(s, d, 0)
    IN  IF neg THEN 0 - v ELSE v

\* Options::set<T> (lines 163-172): a copy for std::string, else `ss >> var`
set(T, optarg) == IF T = "string" THEN optarg ELSE Extract(optarg)

\* what Add and AddSwitch store in setters (lines 63 and 74-76)
ValueSetter(T, var) == [kind |-> "set", T |-> T, var |-> var]
ToggleSetter(var) == [kind |-> "toggle", T |-> "bool", var |-> var]

\* it->second(optarg ? optarg : "") (line 87)
Invoke(st, m, optarg) ==
    IF st.kind = "toggle" THEN [m EXCEPT ![st.var] = ~m[st.var]]
    ELSE [m EXCEPT ![st.var] = set(st.T, IF optarg.null THEN <<>> ELSE optarg.s)]

\* the loop of Parse (lines 84-92)
RECURSIVE ParseLoop(_, _, _, _, _, _, _)
ParseLoop(args, os, opts, st, ind, nc, m) ==
    LET g == getopt_long(args, os, opts, ind, nc)
    IN  IF g.ch = GetoptEnd THEN [ret |-> TRUE, mem |-> m]
        ELSE IF g.ch \in DOMAIN st
        THEN ParseLoop(args, os, opts, st, g.ind, g.nc, Invoke(st[g.ch], m, g.optarg))
        ELSE [ret |-> FALSE, mem |-> m]

----------------------------------------------------------------------------
(* Registration *)

\* usage[group].push_back(block) on a std::map
PushBlock(u, group, block) ==
    IF group \in DOMAIN u THEN [u EXCEPT ![group] = Append(@, block)]
    ELSE (group :> <<block>>) @@ u

\* a test of the long flags that compares with the last one registered only
DuplicateLong_LastOnly(long_flag) ==
    options # <<>> /\ options[Len(options)].name = StrName(long_flag)

\* the tests of lines 113 and 125
DuplicateShort(flag) == flag \in DOMAIN setters

DuplicateLong(long_flag) == long_flag \in long_flags

\* add_entry (lines 108-161) on the current state.  outcome: "ok", "throw"
\* (std::runtime_error) or "hang" (the wrap loop never ends).  The fields
\* carry the members as the call leaves them, and opt the caller's
\* struct option, whose unwritten fields keep junk.
add_entry(T, flag, long_flag, default_val, description, group, junk) ==
    LET same == [outcome |-> "ok", optstr |-> optstr, optval |-> optval,
                 long_flags |-> long_flags, usage |-> usage,
                 opt |-> junk, lay |-> NoLayout]
    IN  IF flag = NUL /\ Len(long_flag) = 0 THEN same
        ELSE IF flag # NUL /\ DuplicateShort(flag)
        THEN [same EXCEPT !.outcome = "throw"]
        ELSE LET s1 == [same EXCEPT
                          !.optstr = IF flag # NUL THEN Append(optstr, flag) ELSE optstr,
                          !.optval = IF flag # NUL THEN optval ELSE optval + 1,
                          !.opt = [junk EXCEPT !.val = IF flag # NUL THEN flag ELSE optval]]
             IN  IF Len(long_flag) # 0 /\ DuplicateLong(long_flag)
                 THEN [s1 EXCEPT !.outcome = "throw"]
                 ELSE LET s2 == IF Len(long_flag) # 0
                                THEN [s1 EXCEPT !.long_flags = long_flags \cup {long_flag},
                                                !.opt.name = StrName(long_flag)]
                                ELSE s1
                          lay == Layout(T, flag, long_flag, default_val, description,
                                        IndentFlag, IndentDescription, ws_col)
                      IN  IF Len(description) = 0 THEN s2
                          ELSE IF lay.hang THEN [s2 EXCEPT !.outcome = "hang", !.lay = lay]
                          ELSE [s2 EXCEPT !.usage = PushBlock(usage, group, lay.block),
                                          !.lay = lay]

NoCall ==
    [op |-> "none", T |-> "none", var |-> <<"none", 0>>, flag |-> 0, long_flag |-> <<>>,
     description |-> <<>>, default_val |-> 0, group |-> <<>>, junk |-> [name |-> NullName, val |-> 0],
     argv |-> <<>>, ret |-> "none", lay |-> NoLayout]

\* what a registration call does once add_entry is through: the members it
\* took from add_entry, and past add_entry the caller's part (tail)
Registered(c, e, tail) ==
    /\ ncalls' = ncalls + 1
    /\ call' = [c EXCEPT !.ret = e.outcome, !.lay = e.lay]
    /\ log' = Append(log, call')
    /\ long_flags' = e.long_flags
    /\ usage' = e.usage
    /\ optval' = e.optval
    /\ phase' = IF e.outcome = "hang" THEN "hung" ELSE phase
    /\ IF e.outcome = "ok"
       THEN tail
       ELSE /\ optstr' = e.optstr
            /\ UNCHANGED <<options, setters, mem>>
    /\ UNCHANGED <<IndentFlag, IndentDescription, Header, ws_col, out>>

\* Options::Add<T> (lines 54-65), binding the caller's variable var
Add(T, var, flag, long_flag, description, default_val, group, junk) ==
    /\ phase = "register"
    /\ LET e == add_entry(T, flag, long_flag, default_val, description, group, junk)
           c == [NoCall EXCEPT !.op = "Add", !.T = T, !.var = var, !.flag = flag,
                               !.long_flag = long_flag, !.description = description,
                               !.default_val = default_val, !.group = group, !.junk = junk]
       IN  Registered(c, e,
              /\ optstr' = Append(e.optstr, Colon)
              /\ mem' = [mem EXCEPT ![var] = default_val]
              /\ setters' = (e.opt.val :> ValueSetter(T, var)) @@ setters
              /\ options' = Append(options, [name |-> e.opt.name,
                                             has_arg |-> required_argument,
                                             val |-> e.opt.val]))

\* Options::AddSwitch (lines 67-79)
AddSwitch(var, flag, long_flag, description, default_val, group, junk) ==
    /\ phase = "register"
    /\ LET e == add_entry("bool", flag, long_flag, mem[var], description, group, junk)
           c == [NoCall EXCEPT !.op = "AddSwitch", !.T = "bool", !.var = var, !.flag = flag,
                               !.long_flag = long_flag, !.description = description,
                               !.default_val = default_val, !.group = group, !.junk = junk]
       IN  Registered(c, e,
              /\ optstr' = e.optstr
              /\ mem' = [mem EXCEPT ![var] = default_val]
              /\ setters' = (e.opt.val :> ToggleSetter(var)) @@ setters
              /\ options' = Append(options, [name |-> e.opt.name,
                                             has_arg |-> optional_argument,
                                             val |-> e.opt.val]))

\* Options::Parse (lines 81-93) on argv[1..argc-1] = args
Parse(args) ==
    /\ phase = "register"
    /\ LET opts == Append(options, Terminator)
           r == ParseLoop(args, optstr, opts, setters, 1, 0, mem)
       IN  /\ options' = opts
           /\ mem' = r.mem
           /\ call' = [NoCall EXCEPT !.op = "Parse", !.argv = args,
                                     !.ret = IF r.ret THEN "true" ELSE "false"]
    /\ phase' = "parsed"
    /\ UNCHANGED <<optstr, setters, long_flags, usage, optval, IndentFlag,
                   IndentDescription, Header, ws_col, ncalls, log, out>>

----------------------------------------------------------------------------
(* Usage *)

\* std::string's operator<, the order of the keys of a std::map
StrLess(a, b) ==
    LET n == Min(Len(a), Len(b))
        d == {i \in 1..n : a[i] # b[i]}
    IN  IF d = {} THEN Len(a) < Len(b)
        ELSE LET i == CHOOSE x \in d : \A y \in d : x <= y IN a[i] < b[i]

\* keys visited from the largest to the smallest
RECURSIVE MapOrder_Descending(_)
MapOrder_Descending(S) ==
    IF S = {} THEN <<>>
    ELSE LET m == CHOOSE x \in S : \A y \in S \ {x} : StrLess(y, x)
         IN  <<m>> \o MapOrder_Descending(S \ {m})

\* the keys of a std::map in the order its iterator visits them
RECURSIVE MapOrder(_)
MapOrder(S) ==
    IF S = {} THEN <<>>
    ELSE LET m == CHOOSE x \in S : \A y \in S \ {x} : StrLess(x, y)
         IN  <<m>> \o MapOrder(S \ {m})

RECURSIVE BlockLines(_)
BlockLines(blocks) ==
    IF blocks = <<>> THEN <<>>
    ELSE Head(blocks) \o <<NL>> \o BlockLines(Tail(blocks))

\* one iteration of the loop of lines 99-103
Section(u, g) ==
    (IF Len(g) # 0 /\ g # <<Underscore>> THEN g \o <<Colon, NL>> ELSE <<>>)
    \o BlockLines(u[g]) \o <<NL>>

RECURSIVE Sections(_, _)
Sections(u, keys) ==
    IF keys = <<>> THEN <<>> ELSE Section(u, Head(keys)) \o Sections(u, Tail(keys))

\* Options::Usage (lines 95-105)
UsageText(hdr, u) == hdr \o Sections(u, MapOrder(DOMAIN u))

Usage ==
    /\ phase # "hung"
    /\ out' = UsageText(Header, usage)
    /\ call' = [NoCall EXCEPT !.op = "Usage", !.ret = "ok"]
    /\ UNCHANGED <<optstr, options, setters, long_flags, usage, optval, IndentFlag,
                   IndentDescription, Header, mem, ws_col, phase, ncalls, log>>

----------------------------------------------------------------------------
(* The state after construction (line 20) and the callers *)

EmptyMap == [x \in {} |-> 0]

Types == {"string", "bool", "unsigned", "int"}

\* the caller's variables before any registration: n of each type
InitMem(n) ==
    [v \in Types \X (1..n) |->
        IF v[1] = "string" THEN <<>> ELSE IF v[1] = "bool" THEN FALSE ELSE 0]

Constructed ==
    /\ optstr = <<>>
    /\ options = <<>>
    /\ setters = EmptyMap
    /\ long_flags = {}
    /\ usage = EmptyMap
    /\ optval = SyntheticBase
    /\ IndentFlag = DefaultIndentFlag
    /\ IndentDescription = DefaultIndentDescription
    /\ Header = <<>>
    /\ phase = "register"
    /\ call = NoCall
    /\ ncalls = 0
    /\ log = <<>>
    /\ out = <<>>

\* Registration followed by one Parse: short flags 'a' and '?', long flags
\* "n" and "nm", std::string variables with default "d", switches.
ShortFlags == {NUL, 97, QuestionMark}
LongFlags == {<<>>, <<110>>, <<110, 109>>}
DefaultString == <<100>>

\* argv elements: -a -av -aw -? -u v --n --nm --nm=v --nm=w --u
Tokens ==
    { <<Dash, 97>>, <<Dash, 97, 118>>, <<Dash, 97, 119>>, <<Dash, QuestionMark>>,
      <<Dash, 117>>, <<118>>,
      <<Dash, Dash, 110>>, <<Dash, Dash, 110, 109>>,
      <<Dash, Dash, 110, 109, EqualsSign, 118>>, <<Dash, Dash, 110, 109, EqualsSign, 119>>,
      <<Dash, Dash, 117>> }

ArgvSet == UNION { [1..n -> Tokens] : n \in 0..MaxArgc }

Init ==
    /\ Constructed
    /\ mem = InitMem(MaxCalls)
    /\ ws_col = FallbackColumns

RegisterValue ==
    /\ ncalls < MaxCalls
    /\ \E flag \in ShortFlags, long_flag \in LongFlags :
         \E junk \in JunkOps(flag, long_flag) :
            Add("string", <<"string", ncalls + 1>>, flag, long_flag, <<>>, DefaultString, <<>>, junk)

RegisterSwitch ==
    /\ ncalls < MaxCalls
    /\ \E flag \in ShortFlags, long_flag \in LongFlags, d \in BOOLEAN :
         \E junk \in JunkOps(flag, long_flag) :
            AddSwitch(<<"bool", ncalls + 1>>, flag, long_flag, <<>>, d, <<>>, junk)

ParseArgv == \E args \in ArgvSet : Parse(args)

Next == RegisterValue \/ RegisterSwitch \/ ParseArgv

Spec == Init /\ [][Next]_vars

----------------------------------------------------------------------------
(* Registration alone, up to MaxRegs calls *)

InitReg ==
    /\ Constructed
    /\ mem = InitMem(MaxRegs)
    /\ ws_col = FallbackColumns

DeclareValue ==
    /\ ncalls < MaxRegs
    /\ \E flag \in {NUL, 97, 98}, long_flag \in LongFlags :
         \E junk \in JunkOps(flag, long_flag) :
            Add("string", <<"string", ncalls + 1>>, flag, long_flag, <<>>, DefaultString, <<>>, junk)

DeclareSwitch ==
    /\ ncalls < MaxRegs
    /\ \E flag \in {NUL, 97, 98}, long_flag \in LongFlags :
         \E junk \in JunkOps(flag, long_flag) :
            AddSwitch(<<"bool", ncalls + 1>>, flag, long_flag, <<>>, TRUE, <<>>, junk)

NextReg == DeclareValue \/ DeclareSwitch

SpecReg == InitReg /\ [][NextReg]_vars

----------------------------------------------------------------------------
(* Registration with descriptions and groups, then Usage *)

\* group names "", "_", "A" and "b"
Groups == {<<>>, <<Underscore>>, <<65>>, <<98>>}
HeaderText == <<72, NL>>

InitUsage ==
    /\ Constructed
    /\ mem = InitMem(MaxUsageCalls)
    /\ ws_col = FallbackColumns

SetHeader ==
    /\ ncalls = 0 /\ Header = <<>> /\ phase = "register"
    /\ Header' = HeaderText
    /\ call' = [NoCall EXCEPT !.op = "SetHeader"]
    /\ UNCHANGED <<optstr, options, setters, long_flags, usage, optval, IndentFlag,
                   IndentDescription, mem, ws_col, phase, ncalls, log, out>>

\* a call without a description leaves the group at its default ""
DescribedIn == {<<<<>>, <<>>>>} \cup ({<<120>>} \X Groups)

GroupedValue ==
    /\ ncalls < MaxUsageCalls
    /\ \E fl \in {<<97, <<110>>>>, <<98, <<110, 109>>>>}, dg \in DescribedIn :
         \E junk \in JunkOps(fl[1], fl[2]) :
            Add("string", <<"string", ncalls + 1>>, fl[1], fl[2], dg[1], <<>>, dg[2], junk)

GroupedSwitch ==
    /\ ncalls < MaxUsageCalls
    /\ \E dg \in DescribedIn :
         \E junk \in JunkOps(NUL, <<109>>) :
            AddSwitch(<<"bool", ncalls + 1>>, NUL, <<109>>, dg[1], FALSE, dg[2], junk)

NextUsage == SetHeader \/ GroupedValue \/ GroupedSwitch \/ Usage

SpecUsage == InitUsage /\ [][NextUsage]_vars

----------------------------------------------------------------------------
(* One described registration under every layout setting, then Usage *)

ColumnsSet == {0, 40}
IndentFlagSet == {2, 25, 35, 36, 37, 38}
IndentDescriptionSet == {18, 28, 40}
Labels == {<<97, <<>>>>, <<NUL, <<110, 109>>>>, <<97, <<110>>>>}
TypedDefaults ==
    ({"string"} \X {<<>>, <<100>>}) \cup ({"unsigned"} \X {0, 7}) \cup ({"int"} \X {0 - 12, 0})

\* descriptions of 1 to MaxDesc characters over ' ', 'x' and 'y'
Descriptions == UNION { [1..n -> {Space, 120, 121}] : n \in 1..MaxDesc }

InitLayout ==
    /\ Constructed
    /\ mem = InitMem(1)
    /\ ws_col = FallbackColumns

\* the caller sets the public members and meets some terminal
Configure ==
    /\ ncalls = 0 /\ call.op = "none"
    /\ \E c \in ColumnsSet, i \in IndentFlagSet, d \in IndentDescriptionSet :
         /\ ws_col' = c
         /\ IndentFlag' = i
         /\ IndentDescription' = d
    /\ call' = [NoCall EXCEPT !.op = "Configure"]
    /\ UNCHANGED <<optstr, options, setters, long_flags, usage, optval, Header,
                   mem, phase, ncalls, log, out>>

LaidOutValue ==
    /\ ncalls = 0
    /\ \E fl \in Labels, td \in TypedDefaults, d \in Descriptions :
         \E junk \in JunkOps(fl[1], fl[2]) :
            Add(td[1], <<td[1], 1>>, fl[1], fl[2], d, td[2], <<>>, junk)

LaidOutSwitch ==
    /\ ncalls = 0
    /\ \E fl \in Labels, d \in Descriptions :
         \E junk \in JunkOps(fl[1], fl[2]) :
            AddSwitch(<<"bool", 1>>, fl[1], fl[2], d, FALSE, <<>>, junk)

NextLayout == Configure \/ LaidOutValue \/ LaidOutSwitch \/ Usage

SpecLayout == InitLayout /\ [][NextLayout]_vars

----------------------------------------------------------------------------
(* Properties *)

IsRegistration(c) == c.op \in {"Add", "AddSwitch"}

\* the step is a registration call, recorded in call'
RegistrationStep == ncalls' = ncalls + 1

\* an earlier call that returned normally and named this short or long flag
UsedShort(flag) == \E i \in 1..Len(log) : log[i].ret = "ok" /\ log[i].flag = flag
UsedLong(long_flag) == \E i \in 1..Len(log) : log[i].ret = "ok" /\ log[i].long_flag = long_flag

\* C5: a registration whose short flag, or whose non-empty long flag, an
\* earlier successful registration already uses throws; the rejected call
\* binds no setter, leaves every setter bound as it was, pushes no option
\* and leaves the caller's variables untouched (the default is not assigned).
C5_DuplicateRejected ==
    [][ (RegistrationStep
         /\ ((call'.flag # NUL /\ UsedShort(call'.flag))
             \/ (call'.long_flag # <<>> /\ UsedLong(call'.long_flag))))
        => (call'.ret = "throw" /\ setters' = setters /\ options' = options /\ mem' = mem)
      ]_vars

\* C5 witness: an Add of a long flag used before was rejected after its new
\* short flag had passed the first test, and its variable is not its default
C5_Witness ==
    /\ call.op = "Add" /\ call.ret = "throw"
    /\ call.flag # NUL /\ call.long_flag # <<>>
    /\ \E i \in 1..(Len(log) - 1) :
          log[i].ret = "ok" /\ log[i].long_flag = call.long_flag /\ log[i].flag # call.flag
    /\ \A i \in 1..(Len(log) - 1) : log[i].flag # call.flag
    /\ mem[call.var] # call.default_val

\* the calls that put a block into the usage table, in registration order
Listed ==
    LET shown(c) == c.ret = "ok" /\ c.description # <<>>
                    /\ (c.flag # NUL \/ c.long_flag # <<>>)
    IN  SelectSeq(log, shown)

ListedGroups == {Listed[i].group : i \in 1..Len(Listed)}

\* the section of group g as the properties expect it: its header line unless
\* g is "" or "_", the blocks of its entries in registration order, each
\* ended by a newline, and an empty line
RECURSIVE EntryBlocks(_, _)
EntryBlocks(calls, g) ==
    IF calls = <<>> THEN <<>>
    ELSE (IF Head(calls).group = g THEN Head(calls).lay.block \o <<NL>> ELSE <<>>)
         \o EntryBlocks(Tail(calls), g)

ExpectedSection(g) ==
    (IF g = <<>> \/ g = <<Underscore>> THEN <<>> ELSE g \o <<Colon, NL>>)
    \o EntryBlocks(Listed, g) \o <<NL>>

RECURSIVE ExpectedSections(_)
ExpectedSections(order) ==
    IF order = <<>> THEN <<>>
    ELSE ExpectedSection(Head(order)) \o ExpectedSections(Tail(order))

Orderings == { o \in [1..Cardinality(ListedGroups) -> ListedGroups] :
                 \A i, j \in DOMAIN o : i # j => o[i] # o[j] }

FirstUse(g) == CHOOSE i \in 1..Len(Listed) :
                  Listed[i].group = g /\ \A j \in 1..(i - 1) : Listed[j].group # g

\* the groups in the order in which each was first used in a registration
FirstRegistrationOrder ==
    CHOOSE o \in Orderings : \A i, j \in DOMAIN o : i < j => FirstUse(o[i]) < FirstUse(o[j])

\* the groups in ascending order of their names, compared byte by byte
AscendingOrder ==
    CHOOSE o \in Orderings : \A i, j \in DOMAIN o : i < j => StrLess(o[i], o[j])

\* C6 as claimed: Usage() returns the header, then one section per group in
\* first-registration order, the entries of a group in registration order,
\* the header line left out exactly for the groups "" and "_".
C6_FirstRegistrationOrder ==
    call.op = "Usage" => out = Header \o ExpectedSections(FirstRegistrationOrder)

\* C6 amended: the same, with the sections in ascending order of the group
\* names (the order of the keys of the std::map), not in registration order.
C6_AscendingGroupOrder ==
    call.op = "Usage" => out = Header \o ExpectedSections(AscendingOrder)

\* C6 witness: Usage() after group "b" was registered before group "A" and
\* got a second entry after it
C6_Witness ==
    /\ call.op = "Usage" /\ Header # <<>>
    /\ Len(Listed) = 3
    /\ Listed[1].group = <<98>> /\ Listed[2].group = <<65>> /\ Listed[3].group = <<98>>
    /\ FirstRegistrationOrder # AscendingOrder

\* the last call was a registration that went through the layout of its
\* description (add_entry got past line 134)
Described ==
    /\ IsRegistration(call) /\ call.ret \in {"ok", "hang"}
    /\ call.description # <<>>
    /\ (call.flag # NUL \/ call.long_flag # <<>>)

RECURSIVE Concat(_)
Concat(ls) == IF ls = <<>> THEN <<>> ELSE Head(ls) \o Concat(Tail(ls))

RECURSIVE Joined(_, _)
Joined(ls, sep) ==
    IF ls = <<>> THEN <<>>
    ELSE IF Len(ls) = 1 THEN Head(ls)
    ELSE Head(ls) \o sep \o Joined(Tail(ls), sep)

\* text is the lines one after the other, with nothing but spaces dropped,
\* and those only in front of a line
RECURSIVE SplitsInto(_, _)
SplitsInto(text, ls) ==
    IF ls = <<>> THEN text = <<>>
    ELSE \E k \in 0..Len(text) :
            /\ \A i \in 1..k : text[i] = Space
            /\ IsPrefix(Head(ls), SubSeq(text, k + 1, Len(text)))
            /\ (Len(ls) > 1 \/ k + Len(Head(ls)) = Len(text))
            /\ SplitsInto(SubSeq(text, k + Len(Head(ls)) + 1, Len(text)), Tail(ls))

\* C7: the wrap loop splits the description (with its default suffix) into
\* lines none of which is longer than the column width, every continuation
\* line preceded by exactly desc_pos spaces, and the lines together are the
\* text with only spaces at the wrap points removed.
C7_WrapSplitsText ==
    Described =>
        LET lay == call.lay
        IN  /\ ~lay.hang
            /\ \A i \in 1..Len(lay.lines) :
                  lay.column_width < 0 \/ Len(lay.lines[i]) <= lay.column_width
            /\ lay.block = lay.prefix \o (IF lay.newline THEN <<NL>> ELSE <<>>)
                           \o Joined(lay.lines, <<NL>> \o Spaces(lay.desc_pos))
            /\ SplitsInto(lay.desc, lay.lines)

\* C9: the description starts at the padded prefix length p exactly when at
\* least 30% of the terminal width w is left (w - p >= 0.3 w, never when
\* p > w), otherwise at IndentFlag + 2 on a line of its own; the column
\* width is w minus that start column and lies between 1 and w.
\* (With exactly 30% left the code falls back, since it tests w - p > 0.3 w;
\* the formula accepts either choice there, so that what violates it is the
\* wrap-around.)
C9_StartColumn ==
    Described =>
        LET lay == call.lay
            w == lay.width
            roomy == lay.p <= w /\ 10 * (w - lay.p) >= 3 * w
            exact == lay.p <= w /\ 10 * (w - lay.p) = 3 * w
        IN  /\ w = (IF ws_col >= 40 THEN ws_col ELSE 80)
            /\ \/ lay.desc_pos = (IF roomy THEN lay.p ELSE IndentFlag + 2)
               \/ exact /\ lay.desc_pos = IndentFlag + 2
            /\ lay.newline = (lay.desc_pos = IndentFlag + 2)
            /\ lay.column_width = w - lay.desc_pos
            /\ lay.column_width >= 1 /\ lay.column_width <= w

\* the decimal text of the numbers the model registers as defaults
DecimalText(n) ==
    CASE n = 0 -> <<48>> [] n = 7 -> <<55>> [] n = 0 - 12 -> <<45, 49, 50>>

Marked(text) == <<32, 60, 100, 101, 102, 97, 117, 108, 116, 58, 32>> \o text \o <<62>>

\* C10 as claimed: " <switch>" for a boolean, " <default: N>" for an unsigned
\* only when N is not zero, " <default: S>" for a string only when S is not
\* empty, and for any other type only when the default is not zero.
C10_SuffixHidesZero ==
    Described =>
        call.lay.desc = call.description \o
            (CASE call.T = "bool" -> <<32, 60, 115, 119, 105, 116, 99, 104, 62>>
               [] call.T = "string" ->
                    IF call.default_val = <<>> THEN <<>> ELSE Marked(call.default_val)
               [] call.T \in {"unsigned", "int"} ->
                    IF call.default_val = 0 THEN <<>> ELSE Marked(DecimalText(call.default_val)))

\* C10 amended: as claimed for booleans, unsigned numbers and strings; a
\* default of any other type is always rendered, so an int flag with
\* default 0 gets " <default: 0>".
C10_SuffixByType ==
    Described =>
        call.lay.desc = call.description \o
            (CASE call.T = "bool" -> <<32, 60, 115, 119, 105, 116, 99, 104, 62>>
               [] call.T = "string" ->
                    IF call.default_val = <<>> THEN <<>> ELSE Marked(call.default_val)
               [] call.T = "unsigned" ->
                    IF call.default_val = 0 THEN <<>> ELSE Marked(DecimalText(call.default_val))
               [] call.T = "int" -> Marked(DecimalText(call.default_val)))

\* C10 witness: an int flag with default 0 and a description was registered
C10_Witness ==
    /\ Described /\ call.op = "Add" /\ call.ret = "ok"
    /\ call.T = "int" /\ call.default_val = 0
    /\ usage[call.group] # <<>>

\* the registration calls that returned normally, in order: under the
\* claims each with a flag made one option entry
Successful == LET ok(c) == c.ret = "ok" IN SelectSeq(log, ok)

\* every registration so far returned normally and had a short flag, a long
\* flag or both
AllRegistered ==
    \A i \in 1..Len(log) :
        log[i].ret = "ok" /\ (log[i].flag # NUL \/ log[i].long_flag # <<>>)

\* the ways to write flag c with the argument v in argv
ValueForms(c, v) ==
    (IF c.flag # NUL THEN {<<<<Dash, c.flag>>, v>>} ELSE {})
    \cup (IF c.long_flag # <<>>
          THEN {<<<<Dash, Dash>> \o c.long_flag, v>>,
                <<<<Dash, Dash>> \o c.long_flag \o <<EqualsSign>> \o v>>}
          ELSE {})

ArgValues == {<<118>>, <<119>>}

\* C1: after any successful registrations, an argv made of one or two occurrences of a
\* flag registered with Add, as `-n value`, `--name value` or `--name=value`,
\* parses successfully and leaves the value of the last occurrence in the
\* flag's variable.
C1_LastValueAssigned ==
    (call.op = "Parse" /\ AllRegistered) =>
        \A i \in 1..Len(log) :
            LET c == log[i]
            IN  c.op = "Add" =>
                    \A v \in ArgValues :
                        /\ call.argv \in ValueForms(c, v) =>
                              (call.ret = "true" /\ mem[c.var] = v)
                        /\ \A u \in ArgValues :
                              \A f \in ValueForms(c, u), g \in ValueForms(c, v) :
                                 call.argv = f \o g => (call.ret = "true" /\ mem[c.var] = v)

\* the ways to write switch c in argv
SwitchForms(c) ==
    (IF c.flag # NUL THEN {<<Dash, c.flag>>} ELSE {})
    \cup (IF c.long_flag # <<>> THEN {<<Dash, Dash>> \o c.long_flag} ELSE {})

Occurrences(args, forms) == Cardinality({k \in 1..Len(args) : args[k] \in forms})

\* C2: after any successful registrations, an argv made of occurrences of a switch
\* registered with default false, and of plain words, parses successfully
\* and leaves the switch true iff it occurred an odd number of times.
C2_SwitchParity ==
    (call.op = "Parse" /\ AllRegistered) =>
        \A i \in 1..Len(log) :
            LET c == log[i]
            IN  (/\ c.op = "AddSwitch" /\ c.default_val = FALSE
                 /\ \A k \in 1..Len(call.argv) :
                       call.argv[k] \in SwitchForms(c) \cup {<<118>>})
                => (/\ call.ret = "true"
                    /\ mem[c.var] = (Occurrences(call.argv, SwitchForms(c)) % 2 = 1))

\* the option tokens -u and --u, which no registration of the model matches
UnknownOptions == {<<Dash, 117>>, <<Dash, Dash, 117>>}

\* C3: after any successful registrations, when argv starts with an option
\* that matches no registered flag, Parse returns false and has invoked no
\* setter: every variable bound by a registration still holds its default.
C3_UnknownOptionRejected ==
    (/\ call.op = "Parse" /\ AllRegistered
     /\ call.argv # <<>> /\ call.argv[1] \in UnknownOptions) =>
        /\ call.ret = "false"
        /\ \A i \in 1..Len(log) : mem[log[i].var] = log[i].default_val

\* C4: a registration given neither a short nor a long flag leaves optstr,
\* the options, the setters, the code counter and the usage table as they
\* were.
C4_NoFlagIsNoOp ==
    [][ (RegistrationStep /\ call'.flag = NUL /\ call'.long_flag = <<>>)
        => (/\ optstr' = optstr /\ options' = options /\ setters' = setters
            /\ optval' = optval /\ usage' = usage /\ long_flags' = long_flags)
      ]_vars

\* the calls that took a synthetic code from the counter (line 121)
Allocations == {i \in 1..Len(log) : log[i].flag = NUL /\ log[i].long_flag # <<>>}

\* C8: while flags are registered, no two option entries share a code; the
\* entry of a registration with a short flag has the character as its code,
\* the entry of one with only a long flag a code from 256 upwards, below
\* 256 plus the number of allocations and above the codes allocated before;
\* and the setter under the code of each such entry is still the one bound
\* to the variable of the registration that made the entry.
C8_CodesUnique ==
    phase = "register" =>
        /\ Len(options) = Len(Successful)
        /\ \A i, j \in 1..Len(options) : i # j => options[i].val # options[j].val
        /\ \A i \in 1..Len(options) :
              LET c == Successful[i]
              IN  (c.flag # NUL \/ c.long_flag # <<>>) =>
                    /\ c.flag # NUL => options[i].val = c.flag
                    /\ c.flag = NUL =>
                          /\ options[i].val >= SyntheticBase
                          /\ options[i].val < SyntheticBase + Cardinality(Allocations)
                          /\ \A j \in 1..(i - 1) :
                                (Successful[j].flag = NUL /\ Successful[j].long_flag # <<>>)
                                => options[j].val < options[i].val
                    /\ options[i].val \in DOMAIN setters
                    /\ setters[options[i].val].var = c.var

====
